---- MODULE Spec2Model ----
(***************************************************************************)
(* agri-nova: the farming simulator.                                       *)
(*                                                                         *)
(*   - the scoring engine of the simulation route (runComprehensive-       *)
(*     Simulation and the calculate... / generate... functions it calls),  *)
(*   - the two HTTP handlers (GET /api/nasaData, POST /api/simulate),      *)
(*   - the simulate page's runSim callback,                                *)
(*   - the results page's fetchLatestSimulation.                           *)
(*                                                                         *)
(* Numbers.  JavaScript numbers are modelled as exact decimals held in     *)
(* integers; each operator states its unit.  Irrigation is in tenths of a  *)
(* mm/day (the route accepts any number), fertilizer and livestock are in  *)
(* whole kg/ha and animals/ha.  Bundle readings: temperature and           *)
(* precipitation in tenths, soil moisture, vegetation index and drought    *)
(* index in hundredths.  The unrounded yield is in hundredths of a point,  *)
(* the unrounded water-efficiency score in tenths.                         *)
(* IEEE-754 representation error (100 * 1.1 = 110.00000000000001) is not   *)
(* modelled.                                                               *)
(***************************************************************************)
EXTENDS Integers, Sequences, FiniteSets, TLC

(***************************************************************************)
(* Bounds of the model: the largest value of each farm parameter.          *)
(***************************************************************************)
MaxIrrigation == 210
MaxFertilizer == 40
MaxLivestock == 150

Crops == {"Corn", "Wheat", "Soybeans", "Rice"}
Soils == {"Loam", "Clay", "Sand", "Silt"}

\* Farm parameters on both sides of every threshold of the code, the
\* thresholds themselves, one irrigation between whole millimetres, and one
\* large value each.
IrrigationValues == {0, 20, 30, 50, 70, 80, 90, 108, MaxIrrigation}
FertilizerValues == {0, 5, 15, 20, 25, 30, MaxFertilizer}
LivestockValues == {0, 2, 3, 4, 5, MaxLivestock}

\* Bundle readings: temperature2m in tenths of a degree, precipitation in
\* tenths of a mm, soil moisture and ndvi in hundredths.  A reading of 0 is
\* the falsy reading, which the code replaces by its default.
TemperatureValues == {200, 250, 260}
PrecipitationValues == {0, 1500}
RootZoneValues == {0, 15, 25, 35}
NdviValues == {70, 75}
DroughtCategories == {"None", "Moderate Drought"}

(***************************************************************************)
(* JavaScript helpers.                                                     *)
(***************************************************************************)
\* Math.round(x) for x = n / scale: the nearest integer, halves upwards.
Round(n, scale) == (2 * n + scale) \div (2 * scale)

Max(a, b) == IF a > b THEN a ELSE b
Min(a, b) == IF a < b THEN a ELSE b
Abs(a) == IF a < 0 THEN -a ELSE a

\* table[key] || fallback
Lookup(table, key, fallback) ==
    IF key \in DOMAIN table /\ table[key] # 0 THEN table[key] ELSE fallback

\* x || fallback on a number (0 is falsy)
OrElse(x, fallback) == IF x = 0 THEN fallback ELSE x

\* cropType || "Corn", soilType || "Loam"
OrCrop(cropType) == IF cropType = "" THEN "Corn" ELSE cropType
OrSoil(soilType) == IF soilType = "" THEN "Loam" ELSE soilType

\* nasaData?.data is defined
HasData(nasaData) == "data" \in DOMAIN nasaData

\* nasaData?.data?.power?.temperature2m and its like; a missing reading is
\* undefined, which is falsy under || and makes every comparison false: the
\* reading 0 behaves the same way in each place the code uses these.
Temperature2m(nasaData) ==
    IF HasData(nasaData) THEN nasaData.data.power.temperature2m ELSE 0
Precipitation(nasaData) ==
    IF HasData(nasaData) THEN nasaData.data.power.precipitation ELSE 0
SoilMoistureRootZone(nasaData) ==
    IF HasData(nasaData) THEN nasaData.data.smap.soilMoistureRootZone ELSE 0
Ndvi(nasaData) ==
    IF HasData(nasaData) THEN nasaData.data.modis.ndvi ELSE 0

(***************************************************************************)
(* The scoring engine.                                                     *)
(***************************************************************************)
cropMultipliers == [Corn |-> 100, Wheat |-> 80, Soybeans |-> 90, Rice |-> 85]
\* tenths
soilMultipliers == [Loam |-> 10, Clay |-> 8, Sand |-> 7, Silt |-> 9]
\* tenths
soilNutrientRetention == [Loam |-> 8, Clay |-> 9, Sand |-> 5, Silt |-> 7]

\* Variant: 25 degrees itself counts as hot.
WeatherFactorHot(nasaData) == IF Temperature2m(nasaData) >= 250 THEN 9 ELSE 11
\* tenths: 0.9 or 1.1
WeatherFactor(nasaData) == IF Temperature2m(nasaData) > 250 THEN 9 ELSE 11

\* hundredths
calculateBaseYield(cropType, soilType, nasaData) ==
    Lookup(cropMultipliers, cropType, 100)
        * Lookup(soilMultipliers, soilType, 10)
        * WeatherFactor(nasaData)

\* irrigationMm in tenths; yieldBoost and waterEfficiency in hundredths
calculateIrrigationImpact(irrigationMm, nasaData) ==
    LET nasaSoilMoisture == OrElse(SoilMoistureRootZone(nasaData), 30)
        efficiency == IF nasaSoilMoisture > 25 THEN 8 ELSE 6
    IN  [yieldBoost |->
            IF irrigationMm > 0
            THEN Min(irrigationMm * 2 * efficiency, 2000)
            ELSE 0,
         waterEfficiency |->
            IF irrigationMm > 50
            THEN Max(50, 100 - (irrigationMm - 50))
            ELSE 100]

\* Variant: the boost is not capped at 15.
FertilizerImpactUncapped(fertilizerKg, soilType) ==
    [yieldBoost |-> fertilizerKg * 5 * Lookup(soilNutrientRetention, soilType, 8),
     soilImpact |->
        IF fertilizerKg > 20 THEN -5
        ELSE IF fertilizerKg > 10 THEN -2 ELSE 0]

\* yieldBoost in hundredths
calculateFertilizerImpact(fertilizerKg, soilType) ==
    LET retention == Lookup(soilNutrientRetention, soilType, 8)
    IN  [yieldBoost |-> Min(fertilizerKg * 5 * retention, 1500),
         soilImpact |->
            IF fertilizerKg > 20 THEN -5
            ELSE IF fertilizerKg > 10 THEN -2 ELSE 0]

\* yieldReduction in hundredths
calculateLivestockImpact(density, nasaData) ==
    [yieldReduction |-> density * 50, soilCompaction |-> density * 2]

\* Variant: each threshold itself already pays the penalty of its tier.
SustainabilityInclusive(choices, nasaData) ==
    LET water == IF choices.irrigationMmPerDay >= 80 THEN 15
                 ELSE IF choices.irrigationMmPerDay >= 50 THEN 8 ELSE 0
        fert == IF choices.fertilizerKgPerHa >= 30 THEN 20
                ELSE IF choices.fertilizerKgPerHa >= 20 THEN 10 ELSE 0
        live == IF choices.livestockDensityPerHa >= 5 THEN 10
                ELSE IF choices.livestockDensityPerHa >= 3 THEN 5 ELSE 0
        veg == IF Ndvi(nasaData) > 70 THEN 5 ELSE 0
        moist == IF SoilMoistureRootZone(nasaData) > 30 THEN 3 ELSE 0
    IN  Max(0, Min(100, 100 - water - fert - live + veg + moist))

\* whole points
calculateSustainabilityScore(choices, nasaData) ==
    LET water == IF choices.irrigationMmPerDay > 80 THEN 15
                 ELSE IF choices.irrigationMmPerDay > 50 THEN 8 ELSE 0
        fert == IF choices.fertilizerKgPerHa > 30 THEN 20
                ELSE IF choices.fertilizerKgPerHa > 20 THEN 10 ELSE 0
        live == IF choices.livestockDensityPerHa > 5 THEN 10
                ELSE IF choices.livestockDensityPerHa > 3 THEN 5 ELSE 0
        veg == IF Ndvi(nasaData) > 70 THEN 5 ELSE 0
        moist == IF SoilMoistureRootZone(nasaData) > 30 THEN 3 ELSE 0
    IN  Max(0, Min(100, 100 - water - fert - live + veg + moist))

\* Variant: the fertilizer comparison is turned round (< 25 pays the 10).
SoilHealthFlipped(choices, nasaData) ==
    LET fert == IF choices.fertilizerKgPerHa < 25 THEN 10
                ELSE IF choices.fertilizerKgPerHa < 5 THEN 5 ELSE 0
        live == choices.livestockDensityPerHa * 2
        irr == IF choices.irrigationMmPerDay > 100 THEN 8 ELSE 0
        soilMoisture == OrElse(SoilMoistureRootZone(nasaData), 30)
        moist == IF soilMoisture > 30 THEN 5
                 ELSE IF soilMoisture < 20 THEN -10 ELSE 0
    IN  80 - fert - live - irr + moist

\* whole points
SoilHealthUnclamped(choices, nasaData) ==
    LET fert == IF choices.fertilizerKgPerHa > 25 THEN 10
                ELSE IF choices.fertilizerKgPerHa < 5 THEN 5 ELSE 0
        live == choices.livestockDensityPerHa * 2
        irr == IF choices.irrigationMmPerDay > 100 THEN 8 ELSE 0
        soilMoisture == OrElse(SoilMoistureRootZone(nasaData), 30)
        moist == IF soilMoisture > 30 THEN 5
                 ELSE IF soilMoisture < 20 THEN -10 ELSE 0
    IN  80 - fert - live - irr + moist

calculateSoilHealthScore(choices, nasaData) ==
    Max(0, Min(100, SoilHealthUnclamped(choices, nasaData)))

\* irrigationMm in tenths; the score in tenths of a point
calculateWaterEfficiencyScore(irrigationMm, nasaData) ==
    LET nasaPrecipitation == OrElse(Precipitation(nasaData), 150)
        penalty == IF irrigationMm < 30 THEN (30 - irrigationMm) * 5
                   ELSE IF irrigationMm > 70 THEN (irrigationMm - 70) * 8 ELSE 0
        \* |irrigation - precipitation / 30| < 2, times 300
        bonus == IF Abs(irrigationMm * 30 - nasaPrecipitation) < 600
                 THEN 100 ELSE 0
    IN  Max(0, Min(1000, 1000 - penalty + bonus))

\* whole kg: Math.round of 50 + 2 f + 36.5 i + 15 l, taken in hundredths
calculateCarbonFootprint(choices) ==
    Round(5000 + choices.fertilizerKgPerHa * 200
               + choices.irrigationMmPerDay * 365
               + choices.livestockDensityPerHa * 1500, 100)

\* revenue - costs in 1/200: yield * 0.5 - (0.8 f + 18.25 i + 20 l), with
\* yieldScore in hundredths
EconomicMargin(choices, yieldScore) ==
    yieldScore - (choices.fertilizerKgPerHa * 160
                  + choices.irrigationMmPerDay * 365
                  + choices.livestockDensityPerHa * 4000)

\* Variant: without Math.max(0, ...).
EconomicViabilityNoFloor(choices, yieldScore) ==
    Round(EconomicMargin(choices, yieldScore), 200)

\* whole dollars
calculateEconomicViability(choices, yieldScore) ==
    Round(Max(0, EconomicMargin(choices, yieldScore)), 200)

(***************************************************************************)
(* Insights, recommendations and comparison.                               *)
(***************************************************************************)
\* nasaData?.data?.drought is defined
HasDrought(nasaData) == HasData(nasaData) /\ "drought" \in DOMAIN nasaData.data

When(cond, item) == IF cond THEN <<item>> ELSE <<>>

\* An insight string: its text and, for the one template string, the value
\* interpolated into it.
Insight(text) == [text |-> text, arg |-> ""]

\* `Drought conditions detected (${category}) - prioritize water conservation`
DroughtMessage(category) ==
    [text |-> "Drought conditions detected () - prioritize water conservation",
     arg |-> category]

IrrigationInsight(choices) ==
    IF choices.irrigationMmPerDay > 80
    THEN <<Insight("High irrigation levels detected - consider water conservation strategies")>>
    ELSE When(choices.irrigationMmPerDay < 30,
              Insight("Low irrigation may limit crop growth - monitor soil moisture closely"))

FertilizerInsight(choices) ==
    IF choices.fertilizerKgPerHa > 25
    THEN <<Insight("High fertilizer use may cause nutrient runoff and soil degradation")>>
    ELSE When(choices.fertilizerKgPerHa < 10,
              Insight("Consider soil testing to optimize fertilizer application"))

LivestockInsight(choices) ==
    IF choices.livestockDensityPerHa > 4
    THEN <<Insight("High livestock density increases soil compaction risk")>>
    ELSE When(choices.livestockDensityPerHa > 0,
              Insight("Livestock can provide natural fertilizer through manure"))

\* The drought test reads the category through ?. but the message reads
\* nasaData.data.drought.droughtCategory directly: with no data or no
\* drought object the test is true (undefined !== "None") and the read
\* throws a TypeError.
\* Variant: the message reads the category through ?. as well.
InsightsNeverThrow(nasaData) == FALSE

InsightsThrow(nasaData) == ~HasDrought(nasaData)

DroughtInsight(nasaData) ==
    IF HasDrought(nasaData)
    THEN When(nasaData.data.drought.droughtCategory # "None",
              DroughtMessage(nasaData.data.drought.droughtCategory))
    ELSE <<DroughtMessage("undefined")>>

VegetationInsight(nasaData) ==
    When(Ndvi(nasaData) > 70,
         Insight("Excellent vegetation health detected - current practices are effective"))

\* Variant: the vegetation insight is pushed first.
InsightsVegetationFirst(choices, nasaData, scores) ==
    VegetationInsight(nasaData) \o IrrigationInsight(choices)
        \o FertilizerInsight(choices) \o LivestockInsight(choices)
        \o DroughtInsight(nasaData)

\* The list it returns when it does not throw.
generateComprehensiveInsights(choices, nasaData, scores) ==
    IrrigationInsight(choices) \o FertilizerInsight(choices)
        \o LivestockInsight(choices) \o DroughtInsight(nasaData)
        \o VegetationInsight(nasaData)

\* Each record is kept by its category and priority; the other three fields
\* are fixed texts per category.
generateDetailedRecommendations(choices, nasaData, scores) ==
    When(scores.waterEfficiencyScore < 700,
         [category |-> "Water Management", priority |-> "High"])
    \o When(choices.fertilizerKgPerHa > 20,
            [category |-> "Nutrient Management", priority |-> "Medium"])
    \o When(choices.livestockDensityPerHa > 3,
            [category |-> "Livestock Management", priority |-> "Medium"])

\* yieldScore and current in hundredths; improvement = (y - 100) / 100 * 100
generateComparisonData(choices, yieldScore) ==
    LET improvement == yieldScore - 10000
    IN  [baseline |-> 100,
         current |-> yieldScore,
         improvement |-> Round(improvement, 100),
         benchmark |-> IF improvement > 1000 THEN "Above Average"
                       ELSE IF improvement > 0 THEN "Average"
                       ELSE "Below Average"]

(***************************************************************************)
(* runComprehensiveSimulation.                                             *)
(***************************************************************************)
\* hundredths: Math.max(0, base + irrigation boost + fertilizer boost
\* - livestock reduction)
YieldUnrounded(choices, nasaData) ==
    Max(0, calculateBaseYield(OrCrop(choices.cropType), OrSoil(choices.soilType), nasaData)
           + calculateIrrigationImpact(choices.irrigationMmPerDay, nasaData).yieldBoost
           + calculateFertilizerImpact(choices.fertilizerKgPerHa,
                                       OrSoil(choices.soilType)).yieldBoost
           - calculateLivestockImpact(choices.livestockDensityPerHa, nasaData).yieldReduction)

\* The value the promise resolves to.
SimulationResult(choices, nasaData) ==
    LET yieldScore == YieldUnrounded(choices, nasaData)
        scores == [yieldScore |-> yieldScore,
                   sustainabilityScore |-> calculateSustainabilityScore(choices, nasaData),
                   soilHealthScore |-> calculateSoilHealthScore(choices, nasaData),
                   waterEfficiencyScore |->
                       calculateWaterEfficiencyScore(choices.irrigationMmPerDay, nasaData)]
    IN  [yieldScore |-> Round(yieldScore, 100),
         sustainabilityScore |-> scores.sustainabilityScore,
         soilHealthScore |-> scores.soilHealthScore,
         waterEfficiencyScore |-> Round(scores.waterEfficiencyScore, 10),
         carbonFootprint |-> calculateCarbonFootprint(choices),
         economicViability |-> calculateEconomicViability(choices, yieldScore),
         insights |-> generateComprehensiveInsights(choices, nasaData, scores),
         recommendations |-> generateDetailedRecommendations(choices, nasaData, scores),
         comparison |-> generateComparisonData(choices, yieldScore)]

\* The function's local constants of lines 373-382.
SimulationLocals(choices, nasaData) ==
    [baseYield |->
        calculateBaseYield(OrCrop(choices.cropType), OrSoil(choices.soilType), nasaData),
     irrigationImpact |->
        calculateIrrigationImpact(choices.irrigationMmPerDay, nasaData),
     fertilizerImpact |->
        calculateFertilizerImpact(choices.fertilizerKgPerHa, OrSoil(choices.soilType)),
     livestockImpact |->
        calculateLivestockImpact(choices.livestockDensityPerHa, nasaData),
     yieldScore |-> YieldUnrounded(choices, nasaData),
     waterEfficiencyScore |->
        calculateWaterEfficiencyScore(choices.irrigationMmPerDay, nasaData)]

\* The outcome of a call: the promise rejects when the insight generator
\* throws, and resolves to the result otherwise.
runComprehensiveSimulation(choices, nasaData) ==
    IF InsightsThrow(nasaData)
    THEN [outcome |-> "rejected", locals |-> SimulationLocals(choices, nasaData)]
    ELSE [outcome |-> "resolved", locals |-> SimulationLocals(choices, nasaData),
          value |-> SimulationResult(choices, nasaData)]

(***************************************************************************)
(* Environmental values.                                                   *)
(***************************************************************************)
\* The environmental values a caller can pass: a bundle with readings, or a
\* JSON object without a data field (the environmental endpoint's error
\* answer).
Bundle(t, p, m, v, c) ==
    [data |-> [power |-> [temperature2m |-> t, precipitation |-> p],
               smap |-> [soilMoistureRootZone |-> m],
               modis |-> [ndvi |-> v],
               drought |-> [droughtCategory |-> c]]]

ErrorObject == [error |-> "Failed to fetch NASA data"]

(***************************************************************************)
(* The environmental endpoint: GET /api/nasaData.                          *)
(***************************************************************************)
\* searchParams.get(name) of a parameter the URL does not carry (null).
Absent == "<absent>"

\* Coordinates are held in ten-thousandths of a degree.  Number(s) of the
\* query strings of the model; <<n>> is the finite number n and <<>> is NaN.
NumericStrings ==
    [s \in {"0", "40.7128", "-74.0060", "-74.006", "12.5"} |->
        CASE s = "0" -> 0
          [] s = "40.7128" -> 407128
          [] s = "-74.0060" -> -740060
          [] s = "-74.006" -> -740060
          [] s = "12.5" -> 125000]

Number(s) ==
    IF s \in DOMAIN NumericStrings THEN <<NumericStrings[s]>>
    ELSE IF s = "" THEN <<0>> ELSE <<>>

IsFinite(n) == n # <<>>

\* String(n) of a finite coordinate of the model.
String(n) ==
    CASE n = 0 -> "0"
      [] n = 407128 -> "40.7128"
      [] n = -740060 -> "-74.006"
      [] n = 125000 -> "12.5"

QueryValues == {Absent, "", "0", "40.7128", "abc"}

\* Variant: the test is made on the number, so that 0 is falsy too.
MissingOrZero(value) == value = Absent \/ value = "" \/ Number(value) = <<0>>
\* !value for a string or null: null and "" are falsy
Missing(value) == value = Absent \/ value = ""

getDroughtCategory(index) ==
    IF index < 20 THEN "None"
    ELSE IF index < 30 THEN "Abnormally Dry"
    ELSE IF index < 40 THEN "Moderate Drought"
    ELSE IF index < 50 THEN "Severe Drought"
    ELSE IF index < 60 THEN "Extreme Drought"
    ELSE "Exceptional Drought"

\* Values Math.random() and Date.now() can give each reading:
\* temperature2m = 22.5 + sin(..) * 5, precipitation = 15.2 + [0, 10),
\* soilMoistureRootZone = 0.28 + [0, 0.08), ndvi = 0.65 + [0, 0.15),
\* 0.3 + [0, 0.4) for each of the two drought draws.
GeneratedTemperature == {200, 260}
GeneratedPrecipitation == {152, 250}
GeneratedRootZone == {28, 35}
GeneratedNdvi == {65, 75}
\* Variant: the draws are Math.random() * 0.4, without the offset 0.3.
GeneratedDroughtFromZero == {10, 45, 69}
GeneratedDrought == {30, 45, 69}

\* The baseData objects fetchComprehensiveNasaData can build.  The readings
\* no scoring function reads (solarRadiation, humidity, windSpeed,
\* soilMoistureSurface, soilTemperature, evi, lai, fpar, gpm,
\* soilMoisturePercentile) and the derived metrics are left out.
fetchComprehensiveNasaData ==
    {[power |-> [temperature2m |-> t, precipitation |-> p],
      smap |-> [soilMoistureRootZone |-> m],
      modis |-> [ndvi |-> v],
      drought |-> [droughtIndex |-> i, droughtCategory |-> getDroughtCategory(j)]] :
        t \in GeneratedTemperature, p \in GeneratedPrecipitation,
        m \in GeneratedRootZone, v \in GeneratedNdvi,
        i \in GeneratedDrought, j \in GeneratedDrought}

MissingParams ==
    [status |-> 400, body |-> [error |-> "Missing required query params: lat, lon"]]

\* The response of GET to a query, data being what
\* fetchComprehensiveNasaData returned.
GET(query, data) ==
    IF Missing(query.lat) \/ Missing(query.lon)
    THEN MissingParams
    ELSE [status |-> 200,
          body |-> [source |-> "NASA Multi-Dataset Integration",
                    location |-> [lat |-> Number(query.lat), lon |-> Number(query.lon)],
                    data |-> data]]

(***************************************************************************)
(* The simulation endpoint: POST /api/simulate.                            *)
(***************************************************************************)
\* A field of the JSON body: a number, or undefined (the key is absent), or
\* a string that is not a number.
Num(n) == [type |-> "number", value |-> n]
Undefined == [type |-> "undefined", value |-> 0]
Str == [type |-> "string", value |-> 0]

IsNumber(field) == field.type = "number"

\* Request bodies: nothing at all, text that is not JSON, the JSON value
\* null, and JSON objects.
EmptyBody == [json |-> "empty"]
MalformedBody == [json |-> "malformed"]
NullBody == [json |-> "null"]

ObjectBodies ==
    {[json |-> "object", irrigationMmPerDay |-> i, fertilizerKgPerHa |-> f,
      livestockDensityPerHa |-> l, cropType |-> c, soilType |-> "Clay"] :
        i \in {Num(50), Num(90), Undefined, Str},
        f \in {Num(15), Undefined, Str},
        l \in {Num(2), Undefined, Str},
        c \in {"", "Rice"}}

PostBodies == {EmptyBody, MalformedBody, NullBody} \cup ObjectBodies

\* request.json() throws on a body that is not JSON text
JsonThrows(body) == body.json \in {"empty", "malformed"}

\* the destructured body, when all three required fields are numbers
\* (cropType "" stands for an absent key, which takes the default)
Complete(body) ==
    /\ IsNumber(body.irrigationMmPerDay)
    /\ IsNumber(body.fertilizerKgPerHa)
    /\ IsNumber(body.livestockDensityPerHa)

ChoicesOf(body) ==
    [irrigationMmPerDay |-> body.irrigationMmPerDay.value,
     fertilizerKgPerHa |-> body.fertilizerKgPerHa.value,
     livestockDensityPerHa |-> body.livestockDensityPerHa.value,
     cropType |-> OrCrop(body.cropType),
     soilType |-> OrSoil(body.soilType)]

\* The URL the handler fetches: /api/nasaData?lat=40.7128&lon=-74.0060
SimulateQuery == [lat |-> "40.7128", lon |-> "-74.0060"]

\* What the environmental fetch and nasaResponse.json() can come to: the
\* fetch rejects, the body is not JSON, or a JSON value: the endpoint's
\* answer to SimulateQuery, or an error object from whatever answers at
\* NEXT_PUBLIC_BASE_URL.
FetchOutcomes ==
    {[settled |-> "rejected"], [settled |-> "notJSON"],
     [settled |-> "json", value |-> ErrorObject]}
    \cup {[settled |-> "json", value |-> GET(SimulateQuery, d).body] :
            d \in fetchComprehensiveNasaData}

MissingBody == [status |-> 400, body |-> [error |-> "Missing request body"]]

SimulationFailed(error) ==
    [status |-> 500, body |-> [error |-> "Simulation failed", details |-> error]]

\* The handler's promise rejected: the framework answers, not the handler.
Unhandled == [status |-> 500, body |-> [unhandled |-> "SyntaxError"]]

ResultFields ==
    {"yieldScore", "sustainabilityScore", "soilHealthScore", "waterEfficiencyScore",
     "carbonFootprint", "economicViability", "insights", "recommendations",
     "comparison"}

\* runComprehensiveSimulation on choices with an undefined or non-numeric
\* required field: every comparison with the field is false and every
\* product with it is NaN, nothing throws, and the result has NaN (null in
\* JSON) wherever the field entered the arithmetic.  Only the shape of that
\* result is modelled.
IncompleteResult == [f \in ResultFields |-> "NaN"]

\* The call the handler makes: runComprehensiveSimulation on the
\* destructured body and the fetched value.
SimulationOf(body, nasa) ==
    IF Complete(body)
    THEN runComprehensiveSimulation(ChoicesOf(body), nasa)
    ELSE IF InsightsThrow(nasa)
         THEN [outcome |-> "rejected"]
         ELSE [outcome |-> "resolved", value |-> IncompleteResult]

\* Response.json(result), or the catch block's answer
PostResponse(outcome) ==
    IF outcome.outcome = "resolved"
    THEN [status |-> 200, body |-> outcome.value]
    ELSE SimulationFailed("TypeError")

(***************************************************************************)
(* State.                                                                  *)
(***************************************************************************)
VARIABLES
    choices,      \* runComprehensiveSimulation: the FarmParameters argument
    nasaData,     \* runComprehensiveSimulation: the environmental argument
    simulation,   \* the outcome of that call
    request,      \* the HTTP request a route handler is serving
    handler,      \* the handler's position and locals
    response,     \* the HTTP response it gave
    page,         \* the simulate page's React state
    run,          \* the simulate page's runSim call in flight
    results       \* the results page's React state and its position

vars ==
    <<choices, nasaData, simulation, request, handler, response, page, run, results>>

engineVars == <<choices, nasaData, simulation>>
routeVars == <<request, handler, response>>
pageVars == <<page, run>>

Bundles ==
    {Bundle(t, p, m, v, c) :
        t \in TemperatureValues, p \in PrecipitationValues,
        m \in RootZoneValues, v \in NdviValues, c \in DroughtCategories}

FarmParameters ==
    [irrigationMmPerDay : IrrigationValues,
     fertilizerKgPerHa : FertilizerValues,
     livestockDensityPerHa : LivestockValues,
     cropType : Crops,
     soilType : Soils]

NotCalled == [outcome |-> "none"]
Unset == [unset |-> "unset"]
NoRequest == [method |-> "none"]
NoResponse == [status |-> 0]
IdleHandler == [pc |-> "idle", fetches |-> 0, generated |-> FALSE]
Null == [null |-> "null"]
NoRun == [pc |-> "idle", outcome |-> "none"]

\* The results page before it is opened; useState's initial values.
ClosedResults ==
    [pc |-> "closed", loading |-> TRUE, simulationData |-> Null, nasaData |-> Null]

\* useState's initial values
InitialPage ==
    [lat |-> 407128, lon |-> -740060,
     irrigation |-> 50, fertilizer |-> 15, livestock |-> 2,
     cropType |-> "Corn", soilType |-> "Loam",
     loading |-> FALSE, result |-> Null, nasaData |-> Null]

(***************************************************************************)
(* Spec: the scoring engine, called on any parameters and any              *)
(* environmental value.                                                    *)
(***************************************************************************)
Init ==
    /\ choices \in FarmParameters
    /\ nasaData \in Bundles \cup {ErrorObject}
    /\ simulation = NotCalled
    /\ request = NoRequest
    /\ handler = IdleHandler
    /\ response = NoResponse
    /\ page = InitialPage
    /\ run = NoRun
    /\ results = ClosedResults

\* The call runComprehensiveSimulation(choices, nasaData).
Simulate ==
    /\ simulation = NotCalled
    /\ simulation' = runComprehensiveSimulation(choices, nasaData)
    /\ UNCHANGED <<choices, nasaData, routeVars, pageVars, results>>

Next == Simulate

Spec == Init /\ [][Next]_vars

(***************************************************************************)
(* SpecApi: the two route handlers, serving one request.                   *)
(***************************************************************************)
InitApi ==
    /\ choices = Unset
    /\ nasaData = Unset
    /\ simulation = NotCalled
    /\ request = NoRequest
    /\ handler = IdleHandler
    /\ response = NoResponse
    /\ page = InitialPage
    /\ run = NoRun
    /\ results = ClosedResults

\* A GET /api/nasaData request arrives.
ReceiveGet ==
    /\ handler.pc = "idle"
    /\ \E lat \in QueryValues, lon \in QueryValues :
        request' = [method |-> "GET", query |-> [lat |-> lat, lon |-> lon]]
    /\ handler' = [handler EXCEPT !.pc = "GET"]
    /\ UNCHANGED <<engineVars, response, pageVars, results>>

\* GET, lat or lon missing: the early return.
GetMissingParams ==
    /\ handler.pc = "GET"
    /\ Missing(request.query.lat) \/ Missing(request.query.lon)
    /\ response' = GET(request.query, Unset)
    /\ handler' = [handler EXCEPT !.pc = "done"]
    /\ UNCHANGED <<engineVars, request, pageVars, results>>

\* GET, both present: fetchComprehensiveNasaData builds a bundle.
GetBundle ==
    /\ handler.pc = "GET"
    /\ ~(Missing(request.query.lat) \/ Missing(request.query.lon))
    /\ \E data \in fetchComprehensiveNasaData :
        response' = GET(request.query, data)
    /\ handler' = [handler EXCEPT !.pc = "done", !.generated = TRUE]
    /\ UNCHANGED <<engineVars, request, pageVars, results>>

\* A POST /api/simulate request arrives.
ReceivePost ==
    /\ handler.pc = "idle"
    /\ \E body \in PostBodies : request' = [method |-> "POST", body |-> body]
    /\ handler' = [handler EXCEPT !.pc = "POST"]
    /\ UNCHANGED <<engineVars, response, pageVars, results>>

\* POST: await request.json() throws, outside the try block.
PostJsonThrows ==
    /\ handler.pc = "POST"
    /\ JsonThrows(request.body)
    /\ response' = Unhandled
    /\ handler' = [handler EXCEPT !.pc = "done"]
    /\ UNCHANGED <<engineVars, request, pageVars, results>>

\* POST: the body parsed to a falsy value.
PostMissingBody ==
    /\ handler.pc = "POST"
    /\ request.body.json = "null"
    /\ response' = MissingBody
    /\ handler' = [handler EXCEPT !.pc = "done"]
    /\ UNCHANGED <<engineVars, request, pageVars, results>>

\* POST: the body is an object; the environmental fetch is issued.
PostFetch ==
    /\ handler.pc = "POST"
    /\ request.body.json = "object"
    /\ handler' = [handler EXCEPT !.pc = "fetch", !.fetches = @ + 1]
    /\ UNCHANGED <<engineVars, request, response, pageVars, results>>

\* POST: the fetch rejects or nasaResponse.json() throws; the catch block.
PostFetchFails ==
    /\ handler.pc = "fetch"
    /\ \E o \in FetchOutcomes :
        /\ o.settled # "json"
        /\ response' = SimulationFailed(o.settled)
    /\ handler' = [handler EXCEPT !.pc = "done"]
    /\ UNCHANGED <<engineVars, request, pageVars, results>>

\* POST: nasaData = await nasaResponse.json()
PostFetchJson ==
    /\ handler.pc = "fetch"
    /\ \E o \in FetchOutcomes :
        /\ o.settled = "json"
        /\ nasaData' = o.value
    /\ handler' = [handler EXCEPT !.pc = "simulate"]
    /\ UNCHANGED <<choices, simulation, request, response, pageVars, results>>

\* POST: runComprehensiveSimulation and the answer.
PostSimulate ==
    /\ handler.pc = "simulate"
    /\ choices' = request.body
    /\ simulation' = SimulationOf(request.body, nasaData)
    /\ response' = PostResponse(simulation')
    /\ handler' = [handler EXCEPT !.pc = "done"]
    /\ UNCHANGED <<nasaData, request, pageVars, results>>

NextApi ==
    \/ ReceiveGet \/ GetMissingParams \/ GetBundle
    \/ ReceivePost \/ PostJsonThrows \/ PostMissingBody \/ PostFetch
    \/ PostFetchFails \/ PostFetchJson \/ PostSimulate

SpecApi == InitApi /\ [][NextApi]_vars

(***************************************************************************)
(* SpecPage: the simulate page, its controls and runSim, with the two      *)
(* route handlers answering its fetches.                                   *)
(***************************************************************************)
\* What the user can set: two latitudes, two longitudes, two irrigation
\* levels and two crops.  (The fertilizer, livestock and soil controls are
\* setters of the same shape and stay at their initial values.)
PageLats == {407128, 0}
PageLons == {-740060, 125000}
PageIrrigation == {50, 90}
PageCrops == {"Corn", "Rice"}

\* The draws of Math.random() and Date.now() followed here: bundles that
\* differ in temperature only.
PageBundles ==
    {d \in fetchComprehensiveNasaData :
        /\ d.power.precipitation = 152
        /\ d.smap.soilMoistureRootZone = 28
        /\ d.modis.ndvi = 65
        /\ d.drought.droughtIndex = 30
        /\ d.drought.droughtCategory = "Moderate Drought"}

PageFetchOutcomes ==
    {o \in FetchOutcomes :
        (o.settled = "json" /\ HasData(o.value)) => o.value.data \in PageBundles}

\* The whole POST handler on a request body, its environmental fetch
\* settling as o.
POST(body, o) ==
    IF JsonThrows(body) THEN Unhandled
    ELSE IF body.json = "null" THEN MissingBody
    ELSE IF o.settled # "json" THEN SimulationFailed(o.settled)
    ELSE PostResponse(SimulationOf(body, o.value))

InitPage ==
    /\ choices = Unset
    /\ nasaData = Unset
    /\ simulation = NotCalled
    /\ request = NoRequest
    /\ handler = IdleHandler
    /\ response = NoResponse
    /\ page = InitialPage
    /\ run = NoRun
    /\ results = ClosedResults

\* A click on the map.
handleLocationSelect ==
    /\ \E selectedLat \in PageLats, selectedLng \in PageLons :
        page' = [page EXCEPT !.lat = selectedLat, !.lon = selectedLng]
    /\ UNCHANGED <<engineVars, routeVars, run, results>>

\* The latitude and longitude inputs.
SetLat ==
    /\ \E v \in PageLats : page' = [page EXCEPT !.lat = v]
    /\ UNCHANGED <<engineVars, routeVars, run, results>>

SetLon ==
    /\ \E v \in PageLons : page' = [page EXCEPT !.lon = v]
    /\ UNCHANGED <<engineVars, routeVars, run, results>>

\* The irrigation slider and the crop select.
SetIrrigation ==
    /\ \E v \in PageIrrigation : page' = [page EXCEPT !.irrigation = v]
    /\ UNCHANGED <<engineVars, routeVars, run, results>>

SetCropType ==
    /\ \E v \in PageCrops : page' = [page EXCEPT !.cropType = v]
    /\ UNCHANGED <<engineVars, routeVars, run, results>>

\* A click on "Run Analysis" (disabled while loading): runSim starts with
\* the values of the render it was created in, and awaits fetchNasa.
RunSim ==
    /\ ~page.loading
    /\ run.pc = "idle"
    /\ page' = [page EXCEPT !.loading = TRUE]
    /\ run' = [pc |-> "fetchNasa", outcome |-> "none",
               lat |-> page.lat, lon |-> page.lon,
               irrigation |-> page.irrigation, fertilizer |-> page.fertilizer,
               livestock |-> page.livestock,
               cropType |-> page.cropType, soilType |-> page.soilType]
    /\ UNCHANGED <<engineVars, routeVars, results>>

\* fetchNasa: the GET is answered and parsed; setNasaData(data).
FetchNasaResolves ==
    /\ run.pc = "fetchNasa"
    /\ \E d \in PageBundles :
        page' = [page EXCEPT !.nasaData =
                    GET([lat |-> String(run.lat), lon |-> String(run.lon)], d).body]
    /\ run' = [run EXCEPT !.pc = "post"]
    /\ UNCHANGED <<engineVars, routeVars, results>>

\* Variant: setLoading(false) after the try block
\* instead of in a finally block, so a rejection skips it.
FetchNasaRejectsNoFinally ==
    /\ run.pc = "fetchNasa"
    /\ run' = [pc |-> "idle", outcome |-> "rejected"]
    /\ UNCHANGED <<engineVars, routeVars, page, results>>

\* fetchNasa: the fetch rejects; runSim's finally block runs.
FetchNasaRejects ==
    /\ run.pc = "fetchNasa"
    /\ page' = [page EXCEPT !.loading = FALSE]
    /\ run' = [pc |-> "idle", outcome |-> "rejected"]
    /\ UNCHANGED <<engineVars, routeVars, results>>

RunBody ==
    [json |-> "object",
     irrigationMmPerDay |-> Num(run.irrigation),
     fertilizerKgPerHa |-> Num(run.fertilizer),
     livestockDensityPerHa |-> Num(run.livestock),
     cropType |-> run.cropType, soilType |-> run.soilType]

\* The POST is answered: the handler made its own environmental fetch,
\* which settled as o; setResult(data) and the finally block.
SimulateResolves ==
    /\ run.pc = "post"
    /\ \E o \in PageFetchOutcomes :
        /\ page' = [page EXCEPT !.result = POST(RunBody, o).body, !.loading = FALSE]
        /\ IF o.settled = "json"
           THEN /\ nasaData' = o.value
                /\ choices' = ChoicesOf(RunBody)
                /\ simulation' = SimulationOf(RunBody, o.value)
           ELSE /\ nasaData' = Unset
                /\ choices' = Unset
                /\ simulation' = NotCalled
    /\ run' = [pc |-> "idle", outcome |-> "resolved"]
    /\ UNCHANGED <<routeVars, results>>

\* The POST's fetch rejects; the finally block.
SimulateRejects ==
    /\ run.pc = "post"
    /\ page' = [page EXCEPT !.loading = FALSE]
    /\ run' = [pc |-> "idle", outcome |-> "rejected"]
    /\ UNCHANGED <<engineVars, routeVars, results>>

NextPage ==
    \/ handleLocationSelect \/ SetLat \/ SetLon \/ SetIrrigation \/ SetCropType
    \/ RunSim \/ FetchNasaResolves \/ FetchNasaRejects
    \/ SimulateResolves \/ SimulateRejects

SpecPage == InitPage /\ [][NextPage]_vars

\* SpecPageFair: the simulate page with every fetch settling in the end
\* (the browser resolves or rejects each fetch promise).
SpecPageFair ==
    /\ InitPage
    /\ [][NextPage]_vars
    /\ WF_vars(FetchNasaResolves \/ FetchNasaRejects)
    /\ WF_vars(SimulateResolves \/ SimulateRejects)

(***************************************************************************)
(* SpecResults: the simulate page (its location controls left alone), the  *)
(* link to the results page, and the results page's fetchLatestSimulation. *)
(***************************************************************************)
\* The body fetchLatestSimulation posts.
SampleBody ==
    [json |-> "object",
     irrigationMmPerDay |-> Num(50),
     fertilizerKgPerHa |-> Num(15),
     livestockDensityPerHa |-> Num(2),
     cropType |-> "Corn", soilType |-> "Loam"]

\* A click on "View Detailed Results": the results page mounts and its
\* effect calls fetchLatestSimulation, which posts the sample body.
OpenResults ==
    /\ results.pc = "closed"
    /\ results' = [results EXCEPT !.pc = "simulate", !.loading = TRUE]
    /\ UNCHANGED <<engineVars, routeVars, pageVars>>

\* The POST is answered, the handler's environmental fetch having settled
\* as o; setSimulationData, then the GET is sent.
ResultsSimulateResolves ==
    /\ results.pc = "simulate"
    /\ \E o \in PageFetchOutcomes :
        results' = [results EXCEPT !.pc = "nasaData",
                                   !.simulationData = POST(SampleBody, o).body]
    /\ UNCHANGED <<engineVars, routeVars, pageVars>>

\* The POST's fetch rejects: the catch block logs, the finally block runs.
ResultsSimulateRejects ==
    /\ results.pc = "simulate"
    /\ results' = [results EXCEPT !.pc = "shown", !.loading = FALSE]
    /\ UNCHANGED <<engineVars, routeVars, pageVars>>

\* The GET is answered; setNasaData and the finally block.
ResultsNasaResolves ==
    /\ results.pc = "nasaData"
    /\ \E d \in PageBundles :
        results' = [results EXCEPT !.pc = "shown", !.loading = FALSE,
                                   !.nasaData = GET(SimulateQuery, d).body]
    /\ UNCHANGED <<engineVars, routeVars, pageVars>>

\* The GET's fetch rejects; the catch and finally blocks.
ResultsNasaRejects ==
    /\ results.pc = "nasaData"
    /\ results' = [results EXCEPT !.pc = "shown", !.loading = FALSE]
    /\ UNCHANGED <<engineVars, routeVars, pageVars>>

\* What the results page renders.
ResultsView ==
    IF results.loading THEN "Loading Results..."
    ELSE IF results.simulationData = Null THEN "No Results Available"
    ELSE "Farm Analysis Results"

\* The simulate page is mounted until the results page is opened.
NextResults ==
    \/ (results.pc = "closed" /\ SetIrrigation)
    \/ (results.pc = "closed" /\ SetCropType)
    \/ (results.pc = "closed" /\ RunSim)
    \/ (results.pc = "closed" /\ FetchNasaResolves)
    \/ (results.pc = "closed" /\ FetchNasaRejects)
    \/ (results.pc = "closed" /\ SimulateResolves)
    \/ (results.pc = "closed" /\ SimulateRejects)
    \/ OpenResults
    \/ ResultsSimulateResolves \/ ResultsSimulateRejects
    \/ ResultsNasaResolves \/ ResultsNasaRejects

SpecResults == InitPage /\ [][NextResults]_vars

(***************************************************************************)
(* Properties.                                                             *)
(***************************************************************************)
Resolved == simulation.outcome = "resolved"

GetDone == request.method = "GET" /\ handler.pc = "done"
PostDone == request.method = "POST" /\ handler.pc = "done"

IsErrorAnswer(r) == "error" \in DOMAIN r.body
HasScores(r) == DOMAIN r.body \cap ResultFields # {}

\* C1: for non-negative parameters, the four crops and soils and any
\* bundle, yieldScore, sustainabilityScore, soilHealthScore and
\* waterEfficiencyScore of the returned result all lie in [0, 100].
C1_ScoresWithin0To100 ==
    Resolved =>
        /\ simulation.value.yieldScore \in 0..100
        /\ simulation.value.sustainabilityScore \in 0..100
        /\ simulation.value.soilHealthScore \in 0..100
        /\ simulation.value.waterEfficiencyScore \in 0..100

\* C2: a POST without a JSON body is answered 400 with an error field, and
\* neither the environmental fetch nor the scoring takes place.
C2_NoBodyIs400 ==
    (PostDone /\ request.body.json = "empty") =>
        /\ response.status = 400
        /\ IsErrorAnswer(response)
        /\ handler.fetches = 0
        /\ simulation = NotCalled

\* C3: a GET without lat or without lon is answered 400 with an error field
\* and generates no bundle; a GET with both present as numeric strings
\* ("0" included) is not answered 400.
C3_MissingCoordinatesRejected ==
    GetDone =>
        /\ (request.query.lat = Absent \/ request.query.lon = Absent) =>
              /\ response.status = 400
              /\ IsErrorAnswer(response)
              /\ ~handler.generated
        /\ (request.query.lat \in DOMAIN NumericStrings
            /\ request.query.lon \in DOMAIN NumericStrings) =>
              response.status # 400

C3_Witness ==
    /\ GetDone
    /\ request.query.lat = "0"
    /\ request.query.lon = "40.7128"
    /\ response.status = 200
    /\ handler.generated

\* C4: a GET whose lat or lon is present but not a finite number is
\* answered 400, not 200 with a generated bundle.
C4_NonFiniteCoordinatesRejected ==
    (/\ GetDone
     /\ request.query.lat \notin {Absent, ""}
     /\ request.query.lon \notin {Absent, ""}
     /\ ~(IsFinite(Number(request.query.lat)) /\ IsFinite(Number(request.query.lon))))
    => response.status = 400

\* C5: a POST whose JSON object lacks, or has a non-numeric value for, one
\* of irrigationMmPerDay, fertilizerKgPerHa, livestockDensityPerHa is
\* answered 400 and never 200.  (Stated for the requests whose
\* environmental fetch brought a bundle, so that no 500 of a failed fetch
\* stands in for the answer.)
C5_IncompleteBodyIs400 ==
    (/\ PostDone
     /\ request.body.json = "object"
     /\ \E f \in {"irrigationMmPerDay", "fertilizerKgPerHa", "livestockDensityPerHa"} :
            request.body[f].type # "number"
     /\ "data" \in DOMAIN nasaData)
    => (response.status = 400 /\ response.status # 200)

\* C6: when the environmental fetch of a POST fails (the fetch rejects, the
\* body is not JSON, or the answer is an error object without a data field)
\* the POST answers 500 with error and details and without any score field.
C6_FailedFetchAbortsSimulation ==
    (PostDone /\ handler.fetches > 0 /\ "data" \notin DOMAIN nasaData) =>
        /\ response.status = 500
        /\ {"error", "details"} \subseteq DOMAIN response.body
        /\ ~HasScores(response)

C6_Witness ==
    /\ PostDone
    /\ handler.fetches > 0
    /\ nasaData = ErrorObject
    /\ Complete(request.body)
    /\ simulation.outcome = "rejected"
    /\ response.status = 500

\* C7: for non-negative parameters, any crop and soil and any bundle,
\* economicViability and carbonFootprint of the result are both >= 0.
C7_EconomicAndCarbonNonNegative ==
    Resolved =>
        /\ simulation.value.economicViability >= 0
        /\ simulation.value.carbonFootprint >= 0

\* costs above revenue by a dollar or more: the floor at 0 applies
C7_Witness ==
    /\ Resolved
    /\ EconomicMargin(choices, simulation.locals.yieldScore) <= -200
    /\ simulation.value.economicViability = 0
    /\ simulation.value.carbonFootprint > 0

\* C10: calculateBaseYield is crop multiplier (Corn 100, Wheat 80,
\* Soybeans 90, Rice 85) x soil factor (Loam 1.0, Clay 0.8, Sand 0.7,
\* Silt 0.9) x weather factor (0.9 if temperature > 25, else 1.1); Corn on
\* Loam at 20 degrees gives 110.  (Hundredths.)
C10_BaseYield ==
    simulation.outcome # "none" =>
        LET crop == CASE choices.cropType = "Corn" -> 100
                      [] choices.cropType = "Wheat" -> 80
                      [] choices.cropType = "Soybeans" -> 90
                      [] choices.cropType = "Rice" -> 85
            soil == CASE choices.soilType = "Loam" -> 10
                      [] choices.soilType = "Clay" -> 8
                      [] choices.soilType = "Sand" -> 7
                      [] choices.soilType = "Silt" -> 9
            hot == "data" \in DOMAIN nasaData
                   /\ nasaData.data.power.temperature2m > 250
            weather == IF hot THEN 9 ELSE 11
        IN  /\ simulation.locals.baseYield = crop * soil * weather
            /\ (choices.cropType = "Corn" /\ choices.soilType = "Loam" /\ ~hot)
                  => simulation.locals.baseYield = 11000

C10_Witness ==
    /\ Resolved
    /\ choices.cropType = "Corn"
    /\ choices.soilType = "Loam"
    /\ nasaData.data.power.temperature2m = 200
    /\ simulation.locals.baseYield = 11000

\* C8: the bundle the Scoring Engine uses is the bundle the page fetched
\* for the selected coordinates: when runSim completes, the scores in
\* result were computed from the location and the readings of the bundle
\* in nasaData.
C8_ScoredBundleIsFetchedBundle ==
    (/\ run.pc = "idle"
     /\ run.outcome = "resolved"
     /\ "yieldScore" \in DOMAIN page.result)
    => /\ nasaData.location = page.nasaData.location
       /\ nasaData.data = page.nasaData.data

\* C11: the reported yieldScore is round(max(0, base yield + irrigation
\* boost + fertilizer boost - livestock reduction)), where the fertilizer
\* boost is min(fertilizer * 0.5 * retention, 15) with retention 0.8 on
\* Loam, 0.9 on Clay, 0.5 on Sand, 0.7 on Silt, and the livestock reduction
\* is density * 0.5.  (Amounts in hundredths of a point.)
C11_Retention(soilType) ==
    CASE soilType = "Loam" -> 8
      [] soilType = "Clay" -> 9
      [] soilType = "Sand" -> 5
      [] soilType = "Silt" -> 7

C11_FertilizerBoost ==
    LET uncapped == choices.fertilizerKgPerHa * 5 * C11_Retention(choices.soilType)
    IN  IF uncapped < 1500 THEN uncapped ELSE 1500

C11_Sum ==
    simulation.locals.baseYield + simulation.locals.irrigationImpact.yieldBoost
        + C11_FertilizerBoost - choices.livestockDensityPerHa * 50

C11_YieldScore ==
    Resolved =>
        simulation.value.yieldScore
            = Round(IF C11_Sum > 0 THEN C11_Sum ELSE 0, 100)

\* A yield where the cap of 15 cuts the fertilizer boost and livestock
\* takes something away.
C11_Witness ==
    /\ Resolved
    /\ choices.fertilizerKgPerHa * 5 * C11_Retention(choices.soilType) > 1500
    /\ choices.livestockDensityPerHa > 0
    /\ simulation.value.yieldScore > 0


\* C12: sustainabilityScore is 100 minus one irrigation penalty (15 above
\* 8 mm/day, else 8 above 5, else 0), minus one fertilizer penalty (20 above
\* 30 kg/ha, else 10 above 20, else 0), minus one livestock penalty (10
\* above 5 per ha, else 5 above 3, else 0), plus 5 when the vegetation index
\* is above 0.7, plus 3 when root-zone moisture is above 0.3, clamped to
\* [0, 100]; the boundary values 5, 8, 20, 30, 3 pay the lower tier.
C12_IrrigationPenalty ==
    CASE choices.irrigationMmPerDay > 80 -> 15
      [] choices.irrigationMmPerDay \in 51..80 -> 8
      [] choices.irrigationMmPerDay <= 50 -> 0

C12_FertilizerPenalty ==
    CASE choices.fertilizerKgPerHa > 30 -> 20
      [] choices.fertilizerKgPerHa \in 21..30 -> 10
      [] choices.fertilizerKgPerHa <= 20 -> 0

C12_LivestockPenalty ==
    CASE choices.livestockDensityPerHa > 5 -> 10
      [] choices.livestockDensityPerHa \in 4..5 -> 5
      [] choices.livestockDensityPerHa <= 3 -> 0

C12_Bonus ==
    (IF HasData(nasaData) /\ nasaData.data.modis.ndvi > 70 THEN 5 ELSE 0)
    + (IF HasData(nasaData) /\ nasaData.data.smap.soilMoistureRootZone > 30
       THEN 3 ELSE 0)

C12_Unclamped ==
    100 - C12_IrrigationPenalty - C12_FertilizerPenalty
        - C12_LivestockPenalty + C12_Bonus

C12_SustainabilityScore ==
    Resolved =>
        simulation.value.sustainabilityScore
            = (IF C12_Unclamped > 100 THEN 100
               ELSE IF C12_Unclamped < 0 THEN 0 ELSE C12_Unclamped)

\* Every parameter on a boundary: irrigation 8 pays 8, fertilizer 30 pays
\* 10, livestock 3 pays nothing.
C12_Witness ==
    /\ Resolved
    /\ choices.irrigationMmPerDay = 80
    /\ choices.fertilizerKgPerHa = 30
    /\ choices.livestockDensityPerHa = 3
    /\ simulation.value.sustainabilityScore = 82 + C12_Bonus

\* C13: waterEfficiencyScore is 100 minus 5 per mm/day of irrigation below
\* 3, minus 8 per mm/day above 7, plus 10 when |irrigation - precipitation
\* / 30| < 2, clamped to [0, 100] and rounded, for every irrigation >= 0 and
\* every precipitation reading, a reading of 0 included.  (Irrigation in
\* tenths of a mm/day, precipitation in tenths of a mm, the score in tenths
\* of a point.)
C13_Penalty ==
    CASE choices.irrigationMmPerDay < 30 -> (30 - choices.irrigationMmPerDay) * 5
      [] choices.irrigationMmPerDay > 70 -> (choices.irrigationMmPerDay - 70) * 8
      [] OTHER -> 0

C13_Distance ==
    choices.irrigationMmPerDay * 30 - nasaData.data.power.precipitation

C13_Unclamped ==
    1000 - C13_Penalty
        + (IF C13_Distance < 600 /\ C13_Distance > -600 THEN 100 ELSE 0)

C13_WaterEfficiencyScore ==
    Resolved =>
        simulation.value.waterEfficiencyScore
            = Round(IF C13_Unclamped > 1000 THEN 1000
                    ELSE IF C13_Unclamped < 0 THEN 0 ELSE C13_Unclamped, 10)

\* C14: with the other parameters and the bundle the same, the
\* soilHealthScore of a run with fertilizer above 25 kg/ha is at most the
\* soilHealthScore of the run with fertilizer 15 kg/ha.
C14_AtFifteen ==
    calculateSoilHealthScore([choices EXCEPT !.fertilizerKgPerHa = 15], nasaData)

C14_HighFertilizerNoBetterSoil ==
    (Resolved /\ choices.fertilizerKgPerHa > 25) =>
        simulation.value.soilHealthScore <= C14_AtFifteen

\* A run with fertilizer 30 whose soil health is strictly below that of the
\* same run with fertilizer 15.
C14_Witness ==
    /\ Resolved
    /\ choices.fertilizerKgPerHa = 30
    /\ simulation.value.soilHealthScore < C14_AtFifteen

\* C15: the insights of a result come in the order irrigation, fertilizer,
\* livestock, drought, vegetation, with at most one insight per category,
\* so never more than five.
C15_Category(insight) ==
    CASE insight.text \in
            {"High irrigation levels detected - consider water conservation strategies",
             "Low irrigation may limit crop growth - monitor soil moisture closely"} -> 1
      [] insight.text \in
            {"High fertilizer use may cause nutrient runoff and soil degradation",
             "Consider soil testing to optimize fertilizer application"} -> 2
      [] insight.text \in
            {"High livestock density increases soil compaction risk",
             "Livestock can provide natural fertilizer through manure"} -> 3
      [] insight.text
            = "Drought conditions detected () - prioritize water conservation" -> 4
      [] insight.text
            = "Excellent vegetation health detected - current practices are effective" -> 5
      [] OTHER -> 0

C15_InsightsOrdered ==
    Resolved =>
        LET insights == simulation.value.insights
        IN  /\ Len(insights) <= 5
            /\ \A i \in DOMAIN insights : C15_Category(insights[i]) \in 1..5
            /\ \A i, j \in DOMAIN insights :
                   i < j => C15_Category(insights[i]) < C15_Category(insights[j])

\* A result with an insight of each of the five categories.
C15_Witness ==
    /\ Resolved
    /\ Len(simulation.value.insights) = 5
    /\ C15_Category(simulation.value.insights[1]) = 1
    /\ C15_Category(simulation.value.insights[5]) = 5

\* C16: the recommendations of a result are, in this order and each at most
\* once, a Water Management record iff the waterEfficiencyScore reported in
\* the same result is below 70, a Nutrient Management record iff fertilizer
\* is above 20, a Livestock Management record iff livestock density is above
\* 3, and nothing else.
C16_Expected ==
    (IF simulation.value.waterEfficiencyScore < 70
     THEN <<"Water Management">> ELSE <<>>)
    \o (IF choices.fertilizerKgPerHa > 20 THEN <<"Nutrient Management">> ELSE <<>>)
    \o (IF choices.livestockDensityPerHa > 3 THEN <<"Livestock Management">> ELSE <<>>)

C16_Recommendations ==
    Resolved =>
        [i \in DOMAIN simulation.value.recommendations |->
            simulation.value.recommendations[i].category] = C16_Expected

\* C17: calculateIrrigationImpact returns yieldBoost = min(irrigation * 2 *
\* efficiency, 20), the efficiency being 0.8 when the bundle's root-zone soil
\* moisture is above 0.25 and 0.6 otherwise, for every irrigation >= 0 and
\* every moisture reading in [0, 1], the reading 0 included; its
\* waterEfficiency is 1.0 up to 5 mm/day, 0.1 less per mm above 5, and never
\* below 0.5.  (Irrigation in tenths, the two results in hundredths.)
C17_Efficiency ==
    IF nasaData.data.smap.soilMoistureRootZone > 25 THEN 8 ELSE 6

C17_YieldBoost ==
    LET uncapped == choices.irrigationMmPerDay * 2 * C17_Efficiency
    IN  IF uncapped < 2000 THEN uncapped ELSE 2000

C17_Multiplier ==
    LET linear == 100 - (choices.irrigationMmPerDay - 50)
    IN  IF choices.irrigationMmPerDay <= 50 THEN 100
        ELSE IF linear < 50 THEN 50 ELSE linear

C17_IrrigationImpact ==
    (simulation # NotCalled /\ HasData(nasaData)) =>
        /\ simulation.locals.irrigationImpact.yieldBoost = C17_YieldBoost
        /\ simulation.locals.irrigationImpact.waterEfficiency = C17_Multiplier

\* C18: in every bundle fetchComprehensiveNasaData returns, the
\* droughtCategory is the classification of the droughtIndex of the same
\* bundle: droughtCategory = getDroughtCategory(droughtIndex).
C18_CategoryClassifiesIndex ==
    (GetDone /\ response.status = 200) =>
        response.body.data.drought.droughtCategory
            = getDroughtCategory(response.body.data.drought.droughtIndex)

\* C19: the results page shows the latest simulation.  Once the user has
\* run a simulation with parameters P on the simulate page and then opened
\* the results page, the simulationData it displays is a result of the
\* simulate endpoint for P; and when no simulation was run before, it shows
\* "No Results Available" rather than scores.
C19_BodyOfLatestRun ==
    [json |-> "object",
     irrigationMmPerDay |-> Num(choices.irrigationMmPerDay),
     fertilizerKgPerHa |-> Num(choices.fertilizerKgPerHa),
     livestockDensityPerHa |-> Num(choices.livestockDensityPerHa),
     cropType |-> choices.cropType, soilType |-> choices.soilType]

C19_NoSimulationRun ==
    page.result = Null /\ run = NoRun

C19_ResultsShowLatestSimulation ==
    (results.pc = "shown") =>
        /\ (choices # Unset /\ results.simulationData # Null) =>
              \E o \in PageFetchOutcomes :
                  results.simulationData = POST(C19_BodyOfLatestRun, o).body
        /\ C19_NoSimulationRun => ResultsView = "No Results Available"

\* C20: on the simulate page every runSim that sets loading to true sets it
\* back to false in the end, whether its two fetches resolve or reject
\* (each fetch settling eventually); and when the environmental fetch
\* rejects, the simulation POST is not issued, the server is not called and
\* result keeps its value.
C20_RejectedFetchStep ==
    (run.pc = "fetchNasa" /\ run'.outcome = "rejected") =>
        /\ run'.pc = "idle"
        /\ page'.result = page.result
        /\ ~page'.loading
        /\ UNCHANGED engineVars

C20_LoadingEnds ==
    /\ page.loading ~> ~page.loading
    /\ [][C20_RejectedFetchStep]_vars

\* The first run's environmental fetch has rejected: loading is false again
\* and there is still no result.
C20_Witness ==
    /\ run = [pc |-> "idle", outcome |-> "rejected"]
    /\ page.nasaData = Null
    /\ page.result = Null
    /\ ~page.loading

\* C21: every bundle fetchComprehensiveNasaData produces has a
\* droughtCategory other than "None" (the classified draw lies in
\* [0.3, 0.7)), so every simulation that succeeds with such a bundle has the
\* drought-conditions insight, naming that category, among its insights.
C21_HasDroughtInsight ==
    \E i \in DOMAIN response.body.insights :
        response.body.insights[i] = DroughtMessage(nasaData.data.drought.droughtCategory)

C21_SimulatedOnGeneratedBundle ==
    /\ PostDone
    /\ response.status = 200
    /\ Complete(request.body)
    /\ HasData(nasaData)
    /\ nasaData.data \in fetchComprehensiveNasaData

C21_GeneratedBundlesShowDrought ==
    /\ (GetDone /\ response.status = 200) =>
            response.body.data.drought.droughtCategory # "None"
    /\ C21_SimulatedOnGeneratedBundle =>
            /\ nasaData.data.drought.droughtCategory # "None"
            /\ C21_HasDroughtInsight

\* A simulation answered 200 on a generated bundle of the most severe
\* category, with the insight in its list.
C21_Witness ==
    /\ C21_SimulatedOnGeneratedBundle
    /\ nasaData.data.drought.droughtCategory = "Exceptional Drought"
    /\ C21_HasDroughtInsight

\* C22: in every result, comparison.current equals the reported yieldScore
\* of the same result, and comparison.benchmark is "Above Average" when
\* that yield exceeds the baseline 100 by more than 10%, "Average" when by
\* more than 0%, and "Below Average" otherwise.  (current is held in
\* hundredths of a point, the reported yieldScore in whole points.)
C22_Benchmark ==
    IF simulation.value.yieldScore > 110 THEN "Above Average"
    ELSE IF simulation.value.yieldScore > 100 THEN "Average"
    ELSE "Below Average"

C22_ComparisonMatchesYield ==
    Resolved =>
        /\ simulation.value.comparison.current = simulation.value.yieldScore * 100
        /\ simulation.value.comparison.benchmark = C22_Benchmark
====
